---- MODULE Spec2Model ----
(***************************************************************************)
(* A model of the WeChat domain monitor (src/domain_monitor.py): the      *)
(* monitor loop run_monitor with load_domains, check_wx_domain,           *)
(* send_webhook_notification and save_results, and the environment it     *)
(* talks to (the domains.txt file, the validation endpoint, the webhook,  *)
(* the per-day log files, the calendar and the operator); and of the main  *)
(* loop of the interactive tool (src/domain_check.py).                     *)
(*                                                                         *)
(* Text is modelled as a sequence of one-character strings, a file as a   *)
(* sequence of lines.  A Python dict is a TLA+ record (a function from    *)
(* its keys), so  'reCode' in result  is  "reCode" \in DOMAIN result.     *)
(* A JSON scalar that may be null is a sequence: <<>> is None/null and    *)
(* <<n>> is the integer n.  A date is a day number; the time of day is    *)
(* abstracted away (no statement below reads it).                         *)
(***************************************************************************)
EXTENDS Integers, Sequences, FiniteSets, TLC

\* ------------------------------------------------------------------ bounds
\* The run is modelled up to MaxChecks requests to the validation endpoint: a
\* cycle is begun only when its whole domain list fits in what is left.
MaxChecks == 2
\* The calendar runs over the days 0 .. MaxDay.
MaxDay == 1

\* The domain list files load_domains is applied to on its own have up to
\* MaxLines lines.
MaxLines == 3

\* --------------------------------------------------------- text and files
Space == " "
Hash == "#"

RECURSIVE LStrip(_)
LStrip(line) ==
    IF line # <<>> /\ Head(line) = Space THEN LStrip(Tail(line)) ELSE line

RECURSIVE RStrip(_)
RStrip(line) ==
    IF line # <<>> /\ line[Len(line)] = Space
    THEN RStrip(SubSeq(line, 1, Len(line) - 1))
    ELSE line

\* str.strip() on one line of the file.
Strip(line) == RStrip(LStrip(line))

\* The test of a line that keeps comments.
IsValidLineKeepsComments(line) == line # <<>>

\* line and not line.startswith('#')
IsValidLine(line) == line # <<>> /\ Head(line) # Hash

\* The body of load_domains' for loop: the stripped lines that are kept, in
\* file order.
RECURSIVE ParseLines(_)
ParseLines(lines) ==
    IF lines = <<>> THEN <<>>
    ELSE LET line == Strip(Head(lines))
         IN  IF IsValidLine(line)
             THEN <<line>> \o ParseLines(Tail(lines))
             ELSE ParseLines(Tail(lines))

DomA == <<"a">>
DomB == <<"b">>

\* The template create_sample_domains_file writes: three comment lines, an
\* empty line, three comment lines.
SampleLines ==
    << <<Hash, Space, "a">>, <<Hash, Space, "b">>, <<Hash, Space, "a">>, <<>>,
       <<Hash, Space, "b">>, <<Hash, Space, "a">>, <<Hash, Space, "b">> >>

\* The contents an operator gives domains.txt in this model.
FileAB == << <<Hash, "c">>, <<Space, "a", Space>>, <<>>, <<"b">> >>
FileB == << <<Space, Space, "b">>, <<Space>> >>
FileComments == << <<Hash, "a">>, <<>> >>
\* A list that names one domain twice.
FileDup == << <<"a">>, <<Hash, "b">>, <<"a">> >>

MissingFile == [exists |-> FALSE, lines |-> <<>>]
TextFile(lines) == [exists |-> TRUE, lines |-> lines]

DomainFiles ==
    {MissingFile, TextFile(FileAB), TextFile(FileB), TextFile(FileComments)}

\* The lines of the files load_domains is applied to on its own: empty, blank,
\* a comment, a comment behind whitespace, a domain, the same domain inside
\* whitespace, another domain, a domain with a '#' after its first character,
\* and an entry with whitespace inside it.
LineChoices ==
    { <<>>, <<Space>>, <<Hash, "a">>, <<Space, Hash>>, <<"a">>,
      <<Space, "a", Space>>, <<"b">>, <<"a", Hash>>, <<"a", Space, "b">> }

\* Every file of up to MaxLines such lines.
ListFiles ==
    {TextFile(lines) : lines \in UNION {[1 .. n -> LineChoices] : n \in 0 .. MaxLines}}

\* ------------------------------------------------- the validation endpoint
JNull == <<>>
JInt(n) == <<n>>

NoneResult == [kind |-> "None"]
\* A reply whose JSON is not an object (a list, say).
ListResult == [kind |-> "list"]
DictResult(d) == [kind |-> "dict", d |-> d]

\* What check_wx_domain can return for one call: None (transport failure,
\* non-200 status, unparseable body), or whatever JSON the endpoint sent.
RawResults ==
    { NoneResult, ListResult,
      DictResult([data |-> "ok"]),
      DictResult([reCode |-> JInt(-202)]),
      DictResult([reCode |-> JInt(-203), data |-> "blocked"]),
      DictResult([reCode |-> JInt(0), data |-> "ok"]),
      DictResult([reCode |-> JInt(-1), data |-> "odd"]),
      DictResult([reCode |-> JNull, data |-> "odd"]) }

RiskText == "risk URL blocked, link may contain unsafe content"
ApiFailed == "API call failed"
RequestFailed == "request failed"

\* result and isinstance(result, dict) and 'reCode' in result
ApiSucceeded(result) ==
    /\ result.kind = "dict"
    /\ "reCode" \in DOMAIN result.d

\* result.get('data', '')
DataMsg(result) == IF "data" \in DOMAIN result.d THEN result.d.data ELSE ""

\* The else branch of run_monitor with its counter forgotten.
FailedBranchUncounted ==
    [status |-> "Failed", msg |-> RequestFailed,
     counter |-> "none", notify |-> FALSE]

\* The else branch of run_monitor (the request failed): the line it prints and
\* the counter it increments; it sends no notification.
FailedBranch ==
    [status |-> "Failed", msg |-> RequestFailed,
     counter |-> "unknown", notify |-> FALSE]

\* The branch run_monitor takes for one raw result, with everything the branch
\* does: the status word and the message it prints (and, for an unknown code,
\* the code printed with it), the counter it increments, and whether it calls
\* send_webhook_notification.
Branch(result) ==
    IF ApiSucceeded(result)
    THEN LET re_code == result.d.reCode
             data_msg == DataMsg(result)
         IN  IF re_code = JInt(-202)
             THEN [status |-> "Normal", msg |-> data_msg,
                   counter |-> "success", notify |-> FALSE]
             ELSE IF re_code = JInt(-203)
             THEN [status |-> "Abnormal", msg |-> data_msg,
                   counter |-> "abnormal", notify |-> TRUE]
             ELSE IF re_code = JInt(0)
             THEN [status |-> "Abnormal", msg |-> RiskText,
                   counter |-> "abnormal", notify |-> TRUE]
             ELSE [status |-> "Unknown", msg |-> data_msg, reCode |-> re_code,
                   counter |-> "unknown", notify |-> FALSE]
    ELSE FailedBranch

\* The dict run_monitor hands to send_webhook_notification.
NotifyArg(display_msg) == [status |-> "abnormal", msg |-> display_msg]

\* The status guard with its comparison the wrong way round.
PassesStatusGuardInverted(arg) ==
    "status" \in DOMAIN arg /\ arg.status # "abnormal"

\* send_webhook_notification returns at once unless result.get('status') is
\* 'abnormal'.
PassesStatusGuard(arg) == "status" \in DOMAIN arg /\ arg.status = "abnormal"

\* What one POST to the webhook can come to: HTTP 200 with errcode 0, HTTP 200
\* with another errcode, another HTTP status, a reply that is not JSON, or a
\* transport error or timeout.
DeliveryOutcomes ==
    {"sent", "errcode", "http_status", "bad_reply", "transport_error"}

\* The record of a domain made the same way whether or not the request failed.
MakeRecordKeepsRaw(domain, result) == [domain |-> domain, result |-> result]

\* The entry run_monitor appends to batch_results for one domain.
MakeRecord(domain, result) ==
    IF ApiSucceeded(result)
    THEN [domain |-> domain, result |-> result]
    ELSE [domain |-> domain, result |-> NoneResult, error |-> ApiFailed]

\* ------------------------------------------------------------ the log files
\* A log file is absent, holds text json.load cannot parse (garbage, or the
\* truncated output of a write that failed), holds JSON that is not a list
\* (an object), or holds a JSON list of batches.  json.dump followed by
\* json.load gives back the list that was written: every value in it came from
\* JSON (strings, integers, null, objects).
AbsentLog == [kind |-> "absent", batches |-> <<>>]
GarbageLog == [kind |-> "garbage", batches |-> <<>>]
ObjectLog == [kind |-> "object", batches |-> <<>>]
ListLog(batches) == [kind |-> "list", batches |-> batches]

\* What the log file of the first day can hold when the program starts.
InitialLogs == {AbsentLog, GarbageLog, ObjectLog}

\* The read of the log file with no except around it: a read that raises
\* leaves save_results without a list to append to.
ReadExistingUncaught(log, readable) ==
    IF log.kind = "absent" THEN [isList |-> TRUE, items |-> <<>>]
    ELSE IF ~readable \/ log.kind \in {"garbage", "object"}
    THEN [isList |-> FALSE, items |-> <<>>]
    ELSE [isList |-> TRUE, items |-> log.batches]

\* existing_logs after the read in save_results: [] when the file is absent,
\* when reading it fails (readable = FALSE) or when its text does not parse;
\* what json.load returns otherwise.  The bare except catches everything.
ReadExisting(log, readable) ==
    IF log.kind = "absent" \/ ~readable \/ log.kind = "garbage"
    THEN [isList |-> TRUE, items |-> <<>>]
    ELSE IF log.kind = "object"
    THEN [isList |-> FALSE, items |-> <<>>]
    ELSE [isList |-> TRUE, items |-> log.batches]

\* The dict save_results appends: the timestamp is taken when it is appended.
NewBatch(now, results) == [timestamp |-> now, results |-> results]

\* How the rewrite of the log file can end: written in full; open() fails and
\* the file is left as it was; open() has truncated the file and the write
\* fails before the JSON is complete.
WriteOutcomes == {"ok", "open_failed", "partial"}

WriteLog(old, logs_list, outcome) ==
    IF outcome = "ok" THEN ListLog(logs_list)
    ELSE IF outcome = "open_failed" THEN old
    ELSE GarbageLog

\* ------------------------------------------------------------------- state
VARIABLES
    pc,             \* where the process is
    checks,         \* requests made to the validation endpoint so far
    today,          \* the calendar day
    domainsFile,    \* domains.txt
    logs,           \* the log file of each day
    domains,        \* run_monitor's domains
    loaded,         \* the lines domains.txt held when domains was read
    idx,            \* position of the for loop in domains
    result,         \* the raw result of the domain being processed
    date_str,       \* run_monitor's date_str
    success_count, abnormal_count, unknown_count,
    batch_results,
    printed,        \* the status lines printed in this cycle
    notified,       \* the POSTs made to the webhook in this cycle
    delivery,       \* how the POST of the domain being processed ended
    existing_logs,  \* save_results' existing_logs
    requested       \* the urls requested from the validation endpoint in this cycle

vars ==
    <<pc, checks, today, domainsFile, logs, domains, loaded, idx, result,
      date_str, success_count, abnormal_count, unknown_count, batch_results,
      printed, notified, delivery, existing_logs, requested>>

env == <<today, domainsFile, logs>>
counters == <<success_count, abnormal_count, unknown_count>>
locals == <<domains, loaded, idx, result, date_str, success_count,
            abnormal_count, unknown_count, batch_results, printed, notified,
            delivery, existing_logs, requested>>

Days == 0 .. MaxDay

\* The process's variables before run_monitor has assigned them.
NoLocals ==
    /\ domains = <<>>
    /\ loaded = <<>>
    /\ idx = 0
    /\ result = NoneResult
    /\ date_str = 0
    /\ success_count = 0
    /\ abnormal_count = 0
    /\ unknown_count = 0
    /\ batch_results = <<>>
    /\ printed = <<>>
    /\ notified = <<>>
    /\ delivery = "none"
    /\ existing_logs = [isList |-> TRUE, items |-> <<>>]
    /\ requested = <<>>

\* The process's variables are gone (it has ended) or dead (run_monitor is
\* back at the top of its loop).
DropLocals ==
    /\ domains' = <<>>
    /\ loaded' = <<>>
    /\ idx' = 0
    /\ result' = NoneResult
    /\ date_str' = 0
    /\ success_count' = 0
    /\ abnormal_count' = 0
    /\ unknown_count' = 0
    /\ batch_results' = <<>>
    /\ printed' = <<>>
    /\ notified' = <<>>
    /\ delivery' = "none"
    /\ existing_logs' = [isList |-> TRUE, items |-> <<>>]
    /\ requested' = <<>>

Init ==
    /\ pc = "Loading"
    /\ checks = 0
    /\ today = 0
    /\ domainsFile \in DomainFiles
    /\ \E l \in InitialLogs : logs = [d \in Days |-> IF d = 0 THEN l ELSE AbsentLog]
    /\ NoLocals

\* ----------------------------------------------------------------- actions
Running == {"Loading", "Check", "Notify", "Record", "SaveRead", "SaveWrite",
            "Sleeping"}

\* load_domains once domains.txt exists: the parsed lines, or [] when opening
\* or reading the file raises.
load_domains(file, readable) ==
    IF readable THEN ParseLines(file.lines) ELSE <<>>

\* The request made again when it has been made.
RequestsForWithRetry(url) == IF url = <<>> THEN <<>> ELSE <<url, url>>

\* The requests one call of check_wx_domain makes: none for an empty url, else
\* one requests.get, which is not repeated.
RequestsFor(url) == IF url = <<>> THEN <<>> ELSE <<url>>

\* check_wx_domain: None for an empty url, else what the request came to.
check_wx_domain(url, reply) == IF url = <<>> THEN NoneResult ELSE reply

\* The domain taken from the file as it is now, not from the list that was
\* loaded.
CurrentDomainFromFile ==
    LET now == ParseLines(domainsFile.lines)
    IN  IF idx \in 1 .. Len(now) THEN now[idx] ELSE domains[idx]

\* The loop variable of  for domain in domains.
CurrentDomain == domains[idx]

\* The reply of the webhook read outside the try.
AfterNotifyUncaught(outcome) ==
    IF outcome = "bad_reply" THEN "Crashed" ELSE "Record"

\* Where run_monitor is after send_webhook_notification has returned: the try
\* around the POST and the reading of its reply catches every Exception.
AfterNotify(outcome) == "Record"

\* An empty list loaded again at once, with no wait.
AfterLoadRetriesAtOnce(ds) == IF ds = <<>> THEN "Loading" ELSE "Check"

\* Where run_monitor goes with the list load_domains returned: to
\* time.sleep(CHECK_INTERVAL) and continue when it is empty, else into the
\* cycle.
AfterLoad(ds) == IF ds = <<>> THEN "Sleeping" ELSE "Check"

\* The log file of the cycle's date already holds a batch in which the domain
\* being processed was recorded with code -203 or 0.
LoggedAbnormalBefore ==
    /\ logs[date_str].kind = "list"
    /\ \E i \in 1 .. Len(logs[date_str].batches) :
         \E j \in 1 .. Len(logs[date_str].batches[i].results) :
           LET rec == logs[date_str].batches[i].results[j]
           IN  /\ rec.domain = domains[idx]
               /\ rec.result.kind = "dict"
               /\ "reCode" \in DOMAIN rec.result.d
               /\ rec.result.d.reCode \in {JInt(-203), JInt(0)}

\* A notification made only the first time a domain is found abnormal.
NotifyDueOncePerLog(b) == b.notify /\ ~LoggedAbnormalBefore

\* Whether the branch taken calls send_webhook_notification: the -203 and the 0
\* branch call it, and nothing kept from an earlier cycle is consulted
\* (previous_status is assigned once, before the loop, and never used).
NotifyDue(b) == b.notify

\* The status word and message printed for a branch.
StatusLine(b) ==
    IF "reCode" \in DOMAIN b
    THEN [status |-> b.status, msg |-> b.msg, reCode |-> b.reCode]
    ELSE [status |-> b.status, msg |-> b.msg]

\* The top of the while loop: load_domains, then either the wait of an empty
\* list or the set-up of a cycle.  A missing domains.txt makes load_domains call
\* create_sample_domains_file, which writes the template and calls sys.exit(0);
\* when the template cannot be written the exception is caught nowhere.
Load ==
    /\ pc = "Loading"
    /\ IF ~domainsFile.exists
       THEN \E written \in BOOLEAN :
              /\ domainsFile' = IF written THEN TextFile(SampleLines)
                                           ELSE domainsFile
              /\ pc' = IF written THEN "Exited" ELSE "Crashed"
              /\ DropLocals
              /\ UNCHANGED <<checks, today, logs>>
       ELSE \E readable \in BOOLEAN :
              LET ds == load_domains(domainsFile, readable)
              IN  /\ checks + Len(ds) <= MaxChecks
                  /\ domains' = ds
                  /\ loaded' = IF readable THEN domainsFile.lines ELSE <<>>
                  /\ printed' = <<>>
                  /\ notified' = <<>>
                  /\ requested' = <<>>
                  /\ pc' = AfterLoad(ds)
                  /\ IF ds = <<>>
                     THEN UNCHANGED <<idx, date_str, counters, batch_results>>
                     ELSE /\ idx' = 1
                          /\ date_str' = today
                          /\ success_count' = 0
                          /\ abnormal_count' = 0
                          /\ unknown_count' = 0
                          /\ batch_results' = <<>>
                  /\ UNCHANGED <<checks, env, result, delivery, existing_logs>>

\* One domain of the for loop: the request, the branch on its result with the
\* line it prints and the counter it increments.
CheckDomain ==
    /\ pc = "Check"
    /\ \E reply \in RawResults :
         LET r == check_wx_domain(CurrentDomain, reply)
             b == Branch(r)
         IN  /\ result' = r
             /\ checks' = checks + 1
             /\ requested' = requested \o RequestsFor(CurrentDomain)
             /\ printed' = Append(printed, StatusLine(b))
             /\ success_count' = success_count + (IF b.counter = "success" THEN 1 ELSE 0)
             /\ abnormal_count' = abnormal_count + (IF b.counter = "abnormal" THEN 1 ELSE 0)
             /\ unknown_count' = unknown_count + (IF b.counter = "unknown" THEN 1 ELSE 0)
             /\ pc' = IF NotifyDue(b) THEN "Notify" ELSE "Record"
    /\ UNCHANGED <<env, domains, loaded, idx, date_str, batch_results,
                   notified, delivery, existing_logs>>

\* send_webhook_notification(domain, {'status': 'abnormal', 'msg': display_msg}):
\* one POST, whose every failure is caught and printed.
Notify ==
    /\ pc = "Notify"
    /\ LET arg == NotifyArg(Branch(result).msg)
       IN  IF PassesStatusGuard(arg)
           THEN \E outcome \in DeliveryOutcomes :
                  /\ notified' = Append(notified, [url |-> CurrentDomain, msg |-> arg.msg])
                  /\ delivery' = outcome
                  /\ pc' = AfterNotify(outcome)
           ELSE /\ pc' = "Record"
                /\ UNCHANGED <<notified, delivery>>
    /\ UNCHANGED <<checks, env, domains, loaded, idx, result, date_str, counters,
                   batch_results, printed, existing_logs, requested>>

\* batch_results.append(...), the pause of 0.5 s, and the step of the for loop;
\* after the last domain the counts are printed and save_results is entered.
Record ==
    /\ pc = "Record"
    /\ batch_results' = Append(batch_results, MakeRecord(CurrentDomain, result))
    /\ result' = NoneResult
    /\ delivery' = "none"
    /\ IF idx < Len(domains)
       THEN idx' = idx + 1 /\ pc' = "Check"
       ELSE idx' = idx /\ pc' = "SaveRead"
    /\ UNCHANGED <<checks, env, domains, loaded, date_str, counters, printed,
                   notified, existing_logs, requested>>

\* save_results, first half: read the log file of date_str.
SaveRead ==
    /\ pc = "SaveRead"
    /\ \E readable \in BOOLEAN :
         existing_logs' = ReadExisting(logs[date_str], readable)
    /\ pc' = "SaveWrite"
    /\ UNCHANGED <<checks, env, domains, loaded, idx, result, date_str, counters,
                   batch_results, printed, notified, delivery, requested>>

\* save_results, second half: append the batch and rewrite the file.  append on
\* a value that is not a list raises AttributeError, which nothing catches.
SaveWrite ==
    /\ pc = "SaveWrite"
    /\ IF ~existing_logs.isList
       THEN /\ pc' = "Crashed"
            /\ DropLocals
            /\ UNCHANGED logs
       ELSE /\ \E outcome \in WriteOutcomes :
                 logs' = [logs EXCEPT ![date_str] =
                            WriteLog(@, Append(existing_logs.items,
                                               NewBatch(today, batch_results)),
                                     outcome)]
            /\ existing_logs' = [isList |-> TRUE, items |-> <<>>]
            /\ pc' = "Sleeping"
            /\ UNCHANGED <<domains, loaded, idx, result, date_str, counters,
                           batch_results, printed, notified, delivery, requested>>
    /\ UNCHANGED <<checks, today, domainsFile>>

\* time.sleep(CHECK_INTERVAL), after a cycle or after an empty list, and the
\* jump to the top of the while loop.  The next pass assigns every variable of
\* run_monitor before it reads it, so none of them is kept.
Sleep ==
    /\ pc = "Sleeping"
    /\ pc' = "Loading"
    /\ DropLocals
    /\ UNCHANGED <<checks, env>>

\* Midnight passes.
Tick ==
    /\ pc \in Running
    /\ today < MaxDay
    /\ today' = today + 1
    /\ UNCHANGED <<pc, checks, domainsFile, logs, locals>>

\* The operator edits, replaces or deletes domains.txt.
EditFile ==
    /\ pc \in Running
    /\ \E f \in DomainFiles \ {domainsFile} : domainsFile' = f
    /\ UNCHANGED <<pc, checks, today, logs, locals>>

\* Ctrl+C: KeyboardInterrupt is raised wherever the process is and caught in
\* main, except inside the read of save_results, whose bare except catches it
\* and goes on with an empty list.  Raised while the log file is being
\* rewritten, it can leave the file as it was, truncated, or written.
Interrupt ==
    /\ pc \in Running
    /\ \/ /\ pc' = "Stopped"
          /\ IF pc = "SaveWrite" /\ existing_logs.isList
             THEN \E outcome \in WriteOutcomes :
                    logs' = [logs EXCEPT ![date_str] =
                               WriteLog(@, Append(existing_logs.items,
                                                  NewBatch(today, batch_results)),
                                        outcome)]
             ELSE UNCHANGED logs
          /\ DropLocals
       \/ /\ pc = "SaveRead"
          /\ logs[date_str].kind # "absent"
          /\ existing_logs' = [isList |-> TRUE, items |-> <<>>]
          /\ pc' = "SaveWrite"
          /\ UNCHANGED <<logs, domains, loaded, idx, result, date_str, counters,
                         batch_results, printed, notified, delivery, requested>>
    /\ UNCHANGED <<checks, today, domainsFile>>

Next ==
    \/ Load
    \/ CheckDomain
    \/ Notify
    \/ Record
    \/ SaveRead
    \/ SaveWrite
    \/ Sleep
    \/ Tick
    \/ EditFile
    \/ Interrupt

Spec == Init /\ [][Next]_vars

\* ------------------------------------------- the loop with no one around
\* run_monitor over a domains.txt nobody touches, within one day: the list
\* with a domain named twice, or the list of two domains.
InitCycle ==
    /\ pc = "Loading"
    /\ checks = 0
    /\ today = 0
    /\ domainsFile \in {TextFile(FileDup), TextFile(FileAB)}
    /\ \E l \in InitialLogs : logs = [d \in Days |-> IF d = 0 THEN l ELSE AbsentLog]
    /\ NoLocals

NextCycle ==
    \/ Load
    \/ CheckDomain
    \/ Notify
    \/ Record
    \/ SaveRead
    \/ SaveWrite
    \/ Sleep
    \/ Interrupt

SpecCycle == InitCycle /\ [][NextCycle]_vars

\* ------------------------------------------------- load_domains on its own
\* domains.txt exists and holds any of ListFiles; nothing has run yet.
InitLoad ==
    /\ pc = "Loading"
    /\ checks = 0
    /\ today = 0
    /\ domainsFile \in ListFiles
    /\ logs = [d \in Days |-> AbsentLog]
    /\ NoLocals

\* One call of load_domains on an existing file: the list it returns, and
\* whether the read raised.
LoadList ==
    /\ pc = "Loading"
    /\ domainsFile.exists
    /\ \E readable \in BOOLEAN :
         /\ domains' = load_domains(domainsFile, readable)
         /\ loaded' = IF readable THEN domainsFile.lines ELSE <<>>
         /\ pc' = IF readable THEN "Loaded" ELSE "LoadFailed"
    /\ UNCHANGED <<checks, env, idx, result, date_str, counters, batch_results,
                   printed, notified, delivery, existing_logs, requested>>

SpecLoad == InitLoad /\ [][LoadList]_vars

\* -------------------------------------- the interactive tool, domain_check
\* What the operator types at the prompt, before it is stripped: nothing, a
\* quit word, or a domain.
ToolInputs == { <<Space>>, <<"q">>, <<Space, "a">>, DomB }

ToolQuitWords == { <<"q">> }

ToolRequestFailed == "request failed, no data"

\* What main does with the raw result once it has printed it:
\* result.get('reCode', None) raises AttributeError on a value that is no dict
\* (None, a list), and nothing in main catches it; a dict goes through the
\* branches on re_code, the last of them taken when the code is absent or null.
ToolBranch(raw) ==
    IF raw.kind # "dict" THEN [raises |-> TRUE]
    ELSE LET re_code == IF "reCode" \in DOMAIN raw.d THEN raw.d.reCode
                                                        ELSE JNull
         IN  IF re_code = JNull
             THEN [raises |-> FALSE, status |-> "Failed",
                   msg |-> ToolRequestFailed, notify |-> FALSE]
             ELSE IF re_code = JInt(-202)
             THEN [raises |-> FALSE, status |-> "Normal",
                   msg |-> DataMsg(raw), notify |-> FALSE]
             ELSE IF re_code = JInt(-203)
             THEN [raises |-> FALSE, status |-> "Abnormal",
                   msg |-> DataMsg(raw), notify |-> TRUE]
             ELSE IF re_code = JInt(0)
             THEN [raises |-> FALSE, status |-> "Abnormal",
                   msg |-> RiskText, notify |-> TRUE]
             ELSE [raises |-> FALSE, status |-> "Unknown",
                   msg |-> DataMsg(raw), notify |-> FALSE]

\* The tool has been started: it is at its prompt.
InitTool ==
    /\ pc = "ToolPrompt"
    /\ checks = 0
    /\ today = 0
    /\ domainsFile = MissingFile
    /\ logs = [d \in Days |-> AbsentLog]
    /\ NoLocals

\* input(...).strip(), the quit words, the empty input, and check_wx_domain on
\* anything else.
ToolAsk ==
    /\ pc = "ToolPrompt"
    /\ \E typed \in ToolInputs :
         LET url == Strip(typed)
         IN  IF url \in ToolQuitWords
             THEN /\ pc' = "ToolQuit"
                  /\ DropLocals
                  /\ UNCHANGED checks
             ELSE IF url = <<>>
             THEN /\ pc' = "ToolPrompt"
                  /\ DropLocals
                  /\ UNCHANGED checks
             ELSE \E reply \in RawResults :
                    /\ checks < MaxChecks
                    /\ checks' = checks + 1
                    /\ domains' = <<url>>
                    /\ idx' = 1
                    /\ requested' = RequestsFor(url)
                    /\ result' = check_wx_domain(url, reply)
                    /\ printed' = <<>>
                    /\ notified' = <<>>
                    /\ delivery' = "none"
                    /\ pc' = "ToolClassify"
                    /\ UNCHANGED <<loaded, date_str, counters, batch_results,
                                   existing_logs>>
    /\ UNCHANGED env

\* The branches on re_code, with the line they print.
ToolClassify ==
    /\ pc = "ToolClassify"
    /\ LET b == ToolBranch(result)
       IN  IF b.raises
           THEN /\ pc' = "ToolCrashed"
                /\ UNCHANGED printed
           ELSE /\ printed' = <<[status |-> b.status, msg |-> b.msg]>>
                /\ pc' = IF b.notify THEN "ToolNotify" ELSE "ToolPrompt"
    /\ UNCHANGED <<checks, env, domains, loaded, idx, result, date_str, counters,
                   batch_results, notified, delivery, existing_logs, requested>>

\* The tool's send_webhook_notification: the same guard, one POST with every
\* failure caught.
ToolNotify ==
    /\ pc = "ToolNotify"
    /\ LET arg == NotifyArg(ToolBranch(result).msg)
       IN  IF PassesStatusGuard(arg)
           THEN \E outcome \in DeliveryOutcomes :
                  /\ notified' = <<[url |-> domains[idx], msg |-> arg.msg]>>
                  /\ delivery' = outcome
           ELSE UNCHANGED <<notified, delivery>>
    /\ pc' = "ToolPrompt"
    /\ UNCHANGED <<checks, env, domains, loaded, idx, result, date_str, counters,
                   batch_results, printed, existing_logs, requested>>

NextTool == ToolAsk \/ ToolClassify \/ ToolNotify

SpecTool == InitTool /\ [][NextTool]_vars

\* ------------------------------------------------------------------ claims
InCycle == pc \in {"Check", "Notify", "Record", "SaveRead", "SaveWrite"}

\* The raw code of a recorded result: the reCode of the response, None when
\* the record holds no response.
RecordedCode(rec) ==
    IF rec.result.kind = "dict" /\ "reCode" \in DOMAIN rec.result.d
    THEN rec.result.d.reCode
    ELSE JNull

\* The notifications owed for the first n domains of the list: one for each
\* domain whose status line says Abnormal, in list order.
RECURSIVE OwedNotifications(_)
OwedNotifications(n) ==
    IF n = 0 THEN <<>>
    ELSE IF printed[n].status = "Abnormal"
         THEN Append(OwedNotifications(n - 1),
                     [url |-> domains[n], msg |-> printed[n].msg])
         ELSE OwedNotifications(n - 1)

\* C1: in every cycle the webhook has been called exactly once for each domain
\* classified Abnormal so far (all but the one whose call is still ahead), in
\* list order with that domain and its message, and for no other domain; and a
\* recorded domain is classified Abnormal exactly when its raw code is -203 or 0.
C1_NotifyIffAbnormal ==
    /\ notified = OwedNotifications(IF pc = "Notify" THEN Len(printed) - 1
                                                     ELSE Len(printed))
    /\ \A i \in 1 .. Len(batch_results) :
         printed[i].status = "Abnormal"
           <=> RecordedCode(batch_results[i]) \in {JInt(-203), JInt(0)}

\* A cycle over two domains is through its checks with one domain classified
\* Abnormal and notified and the other not.
C1_Witness ==
    /\ pc = "SaveRead"
    /\ Len(domains) = 2
    /\ Len(notified) = 1
    /\ \E i \in 1 .. 2 : printed[i].status \in {"Normal", "Unknown", "Failed"}

\* The raw code of a result: the reCode of the response, None when there is no
\* response or the response carries none.
RawCode(r) ==
    IF r.kind = "dict" /\ "reCode" \in DOMAIN r.d THEN r.d.reCode ELSE JNull

\* The classification table: -202 Normal and -203 Abnormal with the response's
\* message, 0 Abnormal with the fixed text, another non-null code Unknown with
\* the message and the code, None Failed with the fixed text.
TableLine(r) ==
    LET code == RawCode(r)
    IN  IF code = JInt(-202) THEN [status |-> "Normal", msg |-> DataMsg(r)]
        ELSE IF code = JInt(-203) THEN [status |-> "Abnormal", msg |-> DataMsg(r)]
        ELSE IF code = JInt(0) THEN [status |-> "Abnormal", msg |-> RiskText]
        ELSE IF code # JNull
        THEN [status |-> "Unknown", msg |-> DataMsg(r), reCode |-> code]
        ELSE [status |-> "Failed", msg |-> RequestFailed]

\* C2: the status line the loop prints for the domain it is processing is the
\* one the classification table gives for that domain's raw result.
C2_StatusFollowsTable ==
    pc \in {"Notify", "Record"} => printed[Len(printed)] = TableLine(result)

\* A call of save_results ends: the step that leaves its write.
SaveEnds == pc = "SaveWrite" /\ pc' \notin {"SaveWrite", "Stopped"}

IsPrefix(s, t) == Len(s) <= Len(t) /\ SubSeq(t, 1, Len(s)) = s

\* C3: when the log file of the date key holds a sequence of batches, a call of
\* save_results leaves every one of them in the file, in the same order, before
\* whatever it adds.
C3_PriorBatchesKept ==
    [][ (SaveEnds /\ logs[date_str].kind = "list")
          => /\ logs'[date_str].kind = "list"
             /\ IsPrefix(logs[date_str].batches, logs'[date_str].batches) ]_vars

\* C4: when the log file of the date key holds text that does not parse, or JSON
\* that is not a sequence of batches, save_results returns to the loop, and the
\* file it has written holds the new batch and nothing else.
C4_UnreadableLogStartsFresh ==
    [][ (SaveEnds /\ logs[date_str].kind \in {"garbage", "object"})
          => /\ pc' = "Sleeping"
             /\ logs'[date_str].kind = "list"
                  => logs'[date_str].batches = <<NewBatch(today, batch_results)>> ]_vars

\* C5: once the loop has made a request, the process is ended by nothing but an
\* operator interrupt.
C5_OnlyInterruptStops == pc \in {"Exited", "Crashed"} => checks = 0

\* C6: the process exits over a missing domains.txt only at the first load of a
\* run, before any request has been made.
C6_ExitOnlyAtFirstLoad ==
    [][ (pc = "Loading" /\ pc' = "Exited") => checks = 0 ]_vars

\* C7: through a cycle the domains recorded and notified are, position by
\* position, the valid lines of domains.txt as it was when the cycle's load read
\* it, whatever the file has become since, and all of them are recorded when the
\* checks are over; and every load reads the file as it is at that moment.
C7_CycleUsesLoadedList ==
    /\ [](InCycle =>
            LET list == ParseLines(loaded)
            IN  /\ domains = list
                /\ idx \in 1 .. Len(list)
                /\ Len(batch_results) = (IF pc \in {"SaveRead", "SaveWrite"}
                                         THEN Len(list) ELSE idx - 1)
                /\ \A i \in 1 .. Len(batch_results) :
                     batch_results[i].domain = list[i]
                /\ \A j \in 1 .. Len(notified) :
                     \E i \in 1 .. idx : notified[j].url = list[i])
    /\ [][ (pc = "Loading" /\ pc' = "Check")
             => /\ loaded' = domainsFile.lines
                /\ domains' = ParseLines(domainsFile.lines) ]_vars

\* The checks of a cycle over the two-domain file are over, and the file was
\* changed to another list after the cycle had loaded it.
C7_Witness ==
    /\ pc = "SaveRead"
    /\ loaded = FileAB
    /\ domainsFile = TextFile(FileB)
    /\ Len(batch_results) = 2

CountOf(status) ==
    Cardinality({i \in 1 .. Len(printed) : printed[i].status = status})

\* The checks of a cycle over at least one domain are over.
ChecksOver ==
    \/ pc \in {"SaveRead", "SaveWrite"}
    \/ pc = "Sleeping" /\ domains # <<>>

CountsRight ==
    /\ Len(printed) = Len(domains)
    /\ success_count = CountOf("Normal")
    /\ abnormal_count = CountOf("Abnormal")
    /\ unknown_count = CountOf("Unknown") + CountOf("Failed")
    /\ success_count + abnormal_count + unknown_count = Len(domains)
    /\ Len(notified) = abnormal_count

\* The batches the log file holds, none when it holds no list.
BatchesIn(log) == IF log.kind = "list" THEN log.batches ELSE <<>>

IsFailedRaw(r) ==
    \/ r.kind = "None"
    \/ r.kind = "list"
    \/ r.kind = "dict" /\ "reCode" \notin DOMAIN r.d

\* C9: a domain for which the checker returned None or a malformed response is
\* classified Failed; a domain classified Failed is counted in unknown_count
\* and goes to its record with no notification; and the record added for a
\* domain carries the error marker and a null result when the domain was
\* classified Failed, and the raw response as it came and no error marker
\* otherwise.
C9_ErrorMarkerIffFailed ==
    [][ /\ (pc = "Check" /\ pc' \in {"Notify", "Record"})
            => LET line == printed'[Len(printed')]
               IN  /\ IsFailedRaw(result') => line.status = "Failed"
                   /\ line.status = "Failed"
                        => /\ unknown_count' = unknown_count + 1
                           /\ pc' = "Record"
                           /\ notified' = notified
        /\ (pc = "Record" /\ pc' \in {"Check", "SaveRead"})
            => LET rec == batch_results'[Len(batch_results')]
                   line == printed[Len(batch_results')]
               IN  /\ Len(batch_results') = Len(batch_results) + 1
                   /\ notified' = notified
                   /\ IF line.status = "Failed"
                      THEN /\ "error" \in DOMAIN rec
                           /\ rec.result = NoneResult
                      ELSE /\ "error" \notin DOMAIN rec
                           /\ rec.result = result ]_vars

\* The checks of a cycle over two domains are over: one record carries the
\* error marker and a null result, the other a raw response.
C9_Witness ==
    /\ pc = "SaveRead"
    /\ Len(batch_results) = 2
    /\ \E i, j \in 1 .. 2 :
         /\ "error" \in DOMAIN batch_results[i]
         /\ batch_results[i].result = NoneResult
         /\ printed[i].status = "Failed"
         /\ "error" \notin DOMAIN batch_results[j]
         /\ batch_results[j].result.kind = "dict"
    /\ notified = <<>>
    /\ unknown_count >= 1

\* C10: whatever the request and the POST of a domain come to, the loop goes
\* on: the check increments one counter and leads to the notification or the
\* record, the notification is one POST and leads to the record, and the record
\* is added for that domain and leads to the next domain of the list, or to the
\* report after the last one.
C10_FailureDoesNotStopCycle ==
    [][ /\ (pc = "Check" /\ pc' \notin {"Check", "Stopped"})
            => /\ pc' \in {"Notify", "Record"}
               /\ success_count' + abnormal_count' + unknown_count'
                    = success_count + abnormal_count + unknown_count + 1
        /\ (pc = "Notify" /\ pc' \notin {"Notify", "Stopped"})
            => /\ pc' = "Record"
               /\ Len(notified') = Len(notified) + 1
        /\ (pc = "Record" /\ pc' \notin {"Record", "Stopped"})
            => /\ Len(batch_results') = Len(batch_results) + 1
               /\ batch_results'[Len(batch_results')].domain = domains[idx]
               /\ IF idx < Len(domains)
                  THEN pc' = "Check" /\ idx' = idx + 1 /\ domains' = domains
                  ELSE pc' = "SaveRead" ]_vars

\* The first domain's request failed and was recorded, and the loop has gone on
\* to the second domain, whose notification has just failed.
C10_Witness ==
    /\ pc = "Record"
    /\ idx = 2
    /\ printed[1].status = "Failed"
    /\ Len(batch_results) = 1
    /\ "error" \in DOMAIN batch_results[1]
    /\ delivery \in DeliveryOutcomes \ {"sent"}


\* The read of the log file raised: the file held something a read would have
\* returned, and save_results went on with an empty list.
ReadFailed ==
    /\ pc = "SaveWrite"
    /\ existing_logs = [isList |-> TRUE, items |-> <<>>]
    /\ \/ logs[date_str].kind \in {"garbage", "object"}
       \/ logs[date_str].kind = "list" /\ logs[date_str].batches # <<>>

\* The rewrite of the log file was attempted and failed: the file does not
\* hold what save_results had to write.
WriteFailed ==
    /\ pc = "SaveWrite"
    /\ existing_logs.isList
    /\ logs'[date_str] # ListLog(Append(existing_logs.items,
                                        NewBatch(today, batch_results)))

\* C11: a failed read of the day's log leaves save_results with an empty list
\* and at its write; after a failed read or a failed write the loop is at its
\* sleep with the counters the checks computed, unchanged by the save; and the
\* sleep of a cycle leads to the next load.
C11_PersistenceFailureKeepsLoop ==
    [][ /\ (pc = "SaveRead" /\ pc' \notin {"SaveRead", "Stopped"})
            => /\ pc' = "SaveWrite"
               /\ counters' = counters
               /\ batch_results' = batch_results
               /\ existing_logs' # ReadExisting(logs[date_str], TRUE)
                    => existing_logs' = [isList |-> TRUE, items |-> <<>>]
        /\ (pc = "SaveWrite" /\ pc' \notin {"SaveWrite", "Stopped"}
             /\ (ReadFailed \/ WriteFailed))
            => /\ pc' = "Sleeping"
               /\ counters' = counters
               /\ success_count' = CountOf("Normal")
               /\ abnormal_count' = CountOf("Abnormal")
               /\ unknown_count' = CountOf("Unknown") + CountOf("Failed")
        /\ (pc = "Sleeping" /\ pc' \notin {"Sleeping", "Stopped"})
            => pc' = "Loading" ]_vars

\* A cycle over two domains, one of them Abnormal, is at its sleep, and the
\* log file of its date holds text that does not parse: the write of its batch
\* failed.
C11_Witness ==
    /\ pc = "Sleeping"
    /\ Len(domains) = 2
    /\ abnormal_count = 1
    /\ success_count + unknown_count = 1
    /\ logs[date_str].kind = "garbage"


\* s is l without its leading and trailing whitespace.
IsStripOf(s, l) ==
    /\ s = <<>> \/ (s[1] # Space /\ s[Len(s)] # Space)
    /\ \E a \in 0 .. Len(l) :
         /\ a + Len(s) <= Len(l)
         /\ SubSeq(l, a + 1, a + Len(s)) = s
         /\ \A j \in (1 .. a) \cup ((a + Len(s) + 1) .. Len(l)) : l[j] = Space

Stripped(l) ==
    CHOOSE s \in {SubSeq(l, a, b) : a \in 1 .. Len(l) + 1, b \in 0 .. Len(l)} :
      IsStripOf(s, l)

\* The line is a domain entry: stripped, it is not empty and does not begin
\* with '#'.
IsEntry(l) == Stripped(l) # <<>> /\ Stripped(l)[1] # Hash

\* The positions of the entries in a file.
EntriesAt(lines) == {i \in 1 .. Len(lines) : IsEntry(lines[i])}

\* C12: the list load_domains returns for a file it can read has one element
\* for each line that is an entry, duplicates included: the element for the
\* k-th such line is at position k and is that line stripped; the list is the
\* one returned for the file with every other line taken out; and no element
\* is empty, begins with '#', or begins or ends with whitespace.
C12_LoadReturnsValidLines ==
    pc = "Loaded" =>
      LET lines == domainsFile.lines
          at == EntriesAt(lines)
      IN  /\ Len(domains) = Cardinality(at)
          /\ \A i \in at :
               domains[Cardinality({j \in at : j <= i})] = Stripped(lines[i])
          /\ domains = load_domains(TextFile(SelectSeq(lines, IsEntry)), TRUE)
          /\ \A k \in 1 .. Len(domains) :
               /\ domains[k] # <<>>
               /\ domains[k][1] \notin {Hash, Space}
               /\ domains[k][Len(domains[k])] # Space

\* load_domains has returned the same domain twice for a file of three lines:
\* the domain inside whitespace, a comment, the domain again.
C12_Witness ==
    /\ pc = "Loaded"
    /\ domainsFile.lines = << <<Space, "a", Space>>, <<Hash, "a">>, <<"a">> >>
    /\ domains = << <<"a">>, <<"a">> >>


\* The points between two domains or between two cycles: the top of the while
\* loop, the top of the for loop, the sleep between cycles.
SafePoints == {"Loading", "Check", "Sleeping"}

\* C13: the operator's interrupt ends the loop only from a point between two
\* domains or between two cycles, and the step that ends it leaves every log
\* file that held a list of batches holding those batches, in order.
C13_InterruptOnlyAtSafePoint ==
    [][ (pc # "Stopped" /\ pc' = "Stopped")
          => /\ pc \in SafePoints
             /\ \A d \in Days :
                  logs[d].kind = "list"
                    => /\ logs'[d].kind = "list"
                       /\ IsPrefix(logs[d].batches, logs'[d].batches) ]_vars


\* C14: through a cycle the requests made are the entries of the loaded list
\* up to the one being processed, one request each and in list order, a
\* repeated entry requested as often as it is listed; the records added are
\* those entries in that order; when a request is made, the notifications of
\* all earlier Abnormal entries have been sent and no other, and a notification
\* is sent for the entry requested last, before any further request.
C14_OneCheckPerEntryInOrder ==
    /\ [](InCycle =>
            /\ Len(requested) = (IF pc = "Check" THEN idx - 1 ELSE idx)
            /\ requested = SubSeq(domains, 1, Len(requested))
            /\ Len(batch_results) = (IF pc \in {"Check", "SaveRead", "SaveWrite"}
                                     THEN Len(requested) ELSE Len(requested) - 1)
            /\ \A i \in 1 .. Len(batch_results) :
                 batch_results[i].domain = domains[i]
            /\ pc \in {"SaveRead", "SaveWrite"} => requested = domains)
    /\ [][ /\ requested' # requested /\ requested' # <<>>
               => /\ requested' = Append(requested, domains[Len(requested) + 1])
                  /\ notified' = notified
                  /\ notified = OwedNotifications(Len(requested))
           /\ notified' # notified /\ notified' # <<>>
               => /\ Len(notified') = Len(notified) + 1
                  /\ notified'[Len(notified')].url = requested[Len(requested)]
                  /\ printed[Len(requested)].status = "Abnormal"
                  /\ requested' = requested
                  /\ Len(batch_results) = Len(requested) - 1 ]_vars

\* The checks of a cycle over the list that names one domain twice are over:
\* the domain was requested twice, found Normal the first time and Abnormal the
\* second, and notified once.
C14_Witness ==
    /\ pc = "SaveRead"
    /\ domains = <<DomA, DomA>>
    /\ requested = <<DomA, DomA>>
    /\ printed[1].status = "Normal"
    /\ printed[2].status = "Abnormal"
    /\ Len(notified) = 1
    /\ Len(batch_results) = 2


\* The loop is waiting after a load that returned an empty list.
EmptyWait == pc = "Sleeping" /\ domains = <<>>

\* C15: a load that returns an empty list makes no request, sends no
\* notification, leaves every log file as it is and takes the loop to its
\* sleep; until that sleep is over nothing is requested, notified or written;
\* and the loop comes to a load only from a sleep, never from a load.
C15_EmptyListOnlySleeps ==
    [][ /\ (pc = "Loading" /\ pc' \notin {"Check", "Exited", "Crashed", "Stopped"}
             /\ UNCHANGED env)
            => \/ UNCHANGED vars
               \/ /\ pc' = "Sleeping"
                  /\ domains' = <<>>
                  /\ requested' = <<>>
                  /\ notified' = <<>>
                  /\ checks' = checks
        /\ EmptyWait
            => /\ pc' \in {"Sleeping", "Loading", "Stopped"}
               /\ checks' = checks
               /\ logs' = logs
               /\ requested' = <<>>
               /\ notified' = <<>>
        /\ (pc # "Loading" /\ pc' = "Loading") => pc = "Sleeping"
        /\ (pc = "Loading" /\ pc' = "Loading") => locals' = locals ]_vars

\* The loop is waiting after a load that found no entry in domains.txt, in a
\* run that has made requests and written a batch before.
C15_Witness ==
    /\ EmptyWait
    /\ loaded = FileComments
    /\ checks > 0
    /\ logs[0].kind = "list"
    /\ requested = <<>>


\* C16: a cycle starts with its counters at zero and nothing requested,
\* printed, notified or recorded, over the list just read from domains.txt;
\* and in every cycle, whatever earlier cycles did and left in the logs, the
\* line printed, the counter incremented and the decision to notify are those
\* of the branch of the response just received, the notification is attempted
\* once for the domain being processed, and the record added is the one made
\* from that domain and that response.
C16_CycleIndependentOfEarlier ==
    /\ []((pc = "Check" /\ idx = 1)
            => /\ success_count = 0 /\ abnormal_count = 0 /\ unknown_count = 0
               /\ batch_results = <<>>
               /\ printed = <<>> /\ notified = <<>> /\ requested = <<>>
               /\ domains = ParseLines(loaded))
    /\ [][ /\ (pc = "Check" /\ pc' \in {"Notify", "Record"})
               => LET b == Branch(result')
                  IN  /\ result' \in RawResults \cup {NoneResult}
                      /\ printed' = Append(printed, StatusLine(b))
                      /\ pc' = "Notify" <=> b.status = "Abnormal"
                      /\ success_count' - success_count
                           = (IF b.status = "Normal" THEN 1 ELSE 0)
                      /\ abnormal_count' - abnormal_count
                           = (IF b.status = "Abnormal" THEN 1 ELSE 0)
                      /\ unknown_count' - unknown_count
                           = (IF b.status \in {"Unknown", "Failed"} THEN 1 ELSE 0)
           /\ (pc = "Notify" /\ pc' \notin {"Notify", "Stopped"})
               => notified' = Append(notified, [url |-> domains[idx],
                                                msg |-> Branch(result).msg])
           /\ (pc = "Record" /\ pc' \in {"Check", "SaveRead"})
               => batch_results' = Append(batch_results,
                                          MakeRecord(domains[idx], result)) ]_vars

\* A domain recorded with code -203 or 0 in a batch of an earlier cycle has
\* been found Abnormal again in this cycle and notified again.
C16_Witness ==
    /\ pc = "Record"
    /\ checks = 2
    /\ LoggedAbnormalBefore
    /\ printed[idx].status = "Abnormal"
    /\ abnormal_count = 1
    /\ notified = <<[url |-> domains[idx], msg |-> printed[idx].msg]>>


\* C17: every batch held by the log file of a day carries a timestamp of that
\* day.
C17_BatchDateIsLogDate ==
    \A d \in Days :
      logs[d].kind = "list"
        => \A i \in 1 .. Len(logs[d].batches) : logs[d].batches[i].timestamp = d


\* C18: for the raw result it has received the tool does not raise, prints
\* the status word the monitor loop prints for that result, and calls
\* send_webhook_notification exactly when the monitor loop does.
C18_ToolAgreesWithMonitor ==
    [][ (pc = "ToolClassify" /\ pc' # "ToolClassify")
          => /\ pc' # "ToolCrashed"
             /\ printed'[1].status = Branch(result).status
             /\ pc' = "ToolNotify" <=> Branch(result).notify ]_vars

====
